---- MODULE Spec2Model ----
(***************************************************************************)
(* fping_exporter: the report-line parser (src/src/ping_result.rs), the    *)
(* sweep runner process_subnet and the on-demand metrics handler           *)
(* (src/src/main.rs).                                                      *)
(*                                                                         *)
(* A report line is kept as the fields the pattern FPING_REGEX cuts it     *)
(* into:                                                                   *)
(*   <addr>[ :] xmt/rcv/%loss = <sent>/<received>/<lost>[%]                *)
(*                                  [, min/avg/max = <rtt1>/<rtt2>/...]    *)
(* addr is a sequence of tokens (blanks and one address text), the counts  *)
(* and the latencies are sequences of characters.                          *)
(***************************************************************************)
EXTENDS Integers, Sequences, FiniteSets, TLC

VARIABLES line, parsed, rendered, running, last

vars == <<line, parsed, rendered, running, last>>

None == [some |-> FALSE]

Some(v) == [some |-> TRUE, val |-> v]

----------------------------------------------------------------------------
(* Text helpers: what \d+, \d+\.?\d*, str::trim, u8::from_str and          *)
(* f64::from_str do on the character sequences of a line.                  *)

Digits == {"0", "1", "2", "3", "4", "5", "6", "7", "8", "9"}

DigitVal(c) ==
    CASE c = "0" -> 0 [] c = "1" -> 1 [] c = "2" -> 2 [] c = "3" -> 3
      [] c = "4" -> 4 [] c = "5" -> 5 [] c = "6" -> 6 [] c = "7" -> 7
      [] c = "8" -> 8 [] c = "9" -> 9

\* \d+
IsDigits(t) == Len(t) > 0 /\ \A i \in 1..Len(t) : t[i] \in Digits

\* \d+\.?\d*
IsDecimal(t) ==
    /\ Len(t) > 0
    /\ t[1] \in Digits
    /\ \A i \in 1..Len(t) : t[i] \in Digits \cup {"."}
    /\ Cardinality({i \in 1..Len(t) : t[i] = "."}) <= 1

\* u8::MAX, the width of PingResult's sent, received and lost
U8Max == 255

RECURSIVE parse_u8_from(_, _, _)
parse_u8_from(t, i, acc) ==
    IF i > Len(t) THEN [ok |-> TRUE, val |-> acc]
    ELSE IF t[i] \notin Digits THEN [ok |-> FALSE]
    ELSE LET next == acc * 10 + DigitVal(t[i])
         IN  IF next > U8Max THEN [ok |-> FALSE]
             ELSE parse_u8_from(t, i + 1, next)

RECURSIVE wrap_u8_from(_, _, _)
wrap_u8_from(t, i, acc) ==
    IF i > Len(t) THEN [ok |-> TRUE, val |-> acc]
    ELSE IF t[i] \notin Digits THEN [ok |-> FALSE]
    ELSE wrap_u8_from(t, i + 1, (acc * 10 + DigitVal(t[i])) % (U8Max + 1))

\* a parse that wraps modulo 256 instead of failing on overflow
parse_u8_wrapping(t) ==
    IF Len(t) = 0 THEN [ok |-> FALSE] ELSE wrap_u8_from(t, 1, 0)

\* str::parse::<u8>(): checked decimal accumulation, an error on overflow
parse_u8(t) ==
    IF Len(t) = 0 THEN [ok |-> FALSE] ELSE parse_u8_from(t, 1, 0)

RECURSIVE Pow10(_)
Pow10(n) == IF n = 0 THEN 1 ELSE 10 * Pow10(n - 1)

RECURSIVE NumberOf(_, _, _)
NumberOf(t, i, acc) ==
    IF i > Len(t) THEN acc
    ELSE IF t[i] = "." THEN NumberOf(t, i + 1, acc)
    ELSE NumberOf(t, i + 1, acc * 10 + DigitVal(t[i]))

\* str::parse::<f64>() of a \d+\.?\d* text, as the fraction num/den
parse_f64(t) ==
    LET dots == {i \in 1..Len(t) : t[i] = "."}
        frac == IF dots = {} THEN 0 ELSE Len(t) - (CHOOSE i \in dots : TRUE)
    IN  [num |-> NumberOf(t, 1, 0), den |-> Pow10(frac)]

\* x / 1000.0
div1000(x) == [num |-> x.num, den |-> x.den * 1000]

RECURSIVE trim_start(_)
trim_start(s) ==
    IF Len(s) > 0 /\ Head(s) = " " THEN trim_start(Tail(s)) ELSE s

RECURSIVE trim_end(_)
trim_end(s) ==
    IF Len(s) > 0 /\ s[Len(s)] = " " THEN trim_end(SubSeq(s, 1, Len(s) - 1))
    ELSE s

\* str::trim
trim(s) == trim_end(trim_start(s))

\* the address texts std::net::IpAddr::from_str accepts
IpTexts == {"1.1.1.1", "202.12.11.1"}

\* str::parse::<IpAddr>(): exactly one address text, no blanks around it
parse_ip(s) ==
    IF Len(s) = 1 /\ s[1] \in IpTexts THEN [ok |-> TRUE, val |-> s[1]]
    ELSE [ok |-> FALSE]

----------------------------------------------------------------------------
(* The report parser.                                                      *)

NoMatch == [matched |-> FALSE]

\* FPING_REGEX.captures(line): the mandatory groups need " :", "= ",
\* three \d+ fields and the % marker; the latency group is optional and
\* matches only as a whole (three \d+\.?\d* fields).
captures(l) ==
    IF l.colon /\ IsDigits(l.sent) /\ IsDigits(l.received)
       /\ IsDigits(l.lost) /\ l.pct
    THEN LET grp == Len(l.rtt) = 3 /\ \A i \in 1..3 : IsDecimal(l.rtt[i])
         IN  [matched    |-> TRUE,
              ip_address |-> l.addr,
              sent       |-> l.sent,
              received   |-> l.received,
              lost       |-> l.lost,
              min        |-> IF grp THEN Some(l.rtt[1]) ELSE None,
              avg        |-> IF grp THEN Some(l.rtt[2]) ELSE None,
              max        |-> IF grp THEN Some(l.rtt[3]) ELSE None]
    ELSE NoMatch

Ok(v) == [kind |-> "Ok", val |-> v]

Err(e) == [kind |-> "Err", err |-> e]

Panic == [kind |-> "Panic"]

NoLatency == [minimum |-> None, average |-> None, maxiumum |-> None]

\* a latency block that fills minimum only
latency_minimum_only(caps) ==
    IF caps.min.some
    THEN Ok([minimum  |-> Some(div1000(parse_f64(caps.min.val))),
             average  |-> None,
             maxiumum |-> None])
    ELSE Ok(NoLatency)

\* a latency block keyed on the loss percentage instead of the min group
latency_by_loss(caps) ==
    IF caps.lost # <<"1", "0", "0">>
    THEN LET z == [num |-> 0, den |-> 1000]
             f(g) == IF g.some THEN div1000(parse_f64(g.val)) ELSE z
         IN  Ok([minimum  |-> Some(f(caps.min)),
                 average  |-> Some(f(caps.avg)),
                 maxiumum |-> Some(f(caps.max))])
    ELSE Ok(NoLatency)

\* the latency block of the parser: all three fields are set together,
\* and only when the min group took part in the match
latency(caps) ==
    IF caps.min.some
    THEN IF ~caps.avg.some THEN Err("MissingField")
         ELSE IF ~caps.max.some THEN Err("MissingField")
         ELSE Ok([minimum  |-> Some(div1000(parse_f64(caps.min.val))),
                  average  |-> Some(div1000(parse_f64(caps.avg.val))),
                  maxiumum |-> Some(div1000(parse_f64(caps.max.val)))])
    ELSE Ok(NoLatency)

\* the fields of a matched line, in the order the parser extracts them;
\* the first failure is returned
fields(caps) ==
    LET ip       == parse_ip(trim(caps.ip_address))
        sent     == parse_u8(caps.sent)
        received == parse_u8(caps.received)
        lost     == parse_u8(caps.lost)
        lat      == latency(caps)
    IN  IF ~ip.ok THEN Err("IpAddressError")
        ELSE IF ~sent.ok THEN Err("ParseIntError")
        ELSE IF ~received.ok THEN Err("ParseIntError")
        ELSE IF ~lost.ok THEN Err("ParseIntError")
        ELSE IF lat.kind # "Ok" THEN lat
        ELSE Ok([ip_address |-> ip.val,
                 sent       |-> sent.val,
                 received   |-> received.val,
                 lost       |-> lost.val,
                 minimum    |-> lat.val.minimum,
                 average    |-> lat.val.average,
                 maxiumum   |-> lat.val.maxiumum])

\* PingResult::from_str: captures(..).unwrap() panics on a line the pattern
\* does not match
from_str(l) ==
    LET caps == captures(l)
    IN  IF ~caps.matched THEN Panic ELSE fields(caps)

\* the body of process_subnet's loop: captures(..).ok_or(ParseError)?
parse_report_line(l) ==
    LET caps == captures(l)
    IN  IF ~caps.matched THEN Err("ParseError") ELSE fields(caps)

----------------------------------------------------------------------------
(* The sweep runner.                                                       *)

\* what Command::output() hands back: an io error, or the exit status and
\* the captured stderr, already cut into report lines
SpawnFailed == [spawned |-> FALSE]

Exited(status, lines) == [spawned |-> TRUE, status |-> status, lines |-> lines]

\* the tool's exit statuses: ran normally, or its operational failure
ExitStatuses == {"normal", "operational_failure"}

RECURSIVE parse_lines(_, _, _)
parse_lines(lines, i, results) ==
    IF i > Len(lines) THEN Ok(results)
    ELSE LET r == parse_report_line(lines[i])
         IN  IF r.kind # "Ok" THEN r
             ELSE parse_lines(lines, i + 1, Append(results, r.val))

\* process_subnet: the exit status is never read; the first line that
\* fails to parse fails the whole sweep
process_subnet(out) ==
    IF ~out.spawned THEN Err("CommandError")
    ELSE parse_lines(out.lines, 1, <<>>)

----------------------------------------------------------------------------
(* The metrics renderer.                                                   *)

Header(name) == [t |-> "header", name |-> name, type |-> "gauge"]

Sample(name, labels, value) ==
    [t |-> "sample", name |-> name, labels |-> labels, value |-> value]

Blank == [t |-> "blank"]

\* Option::unwrap
Unwraps(o) == o.some

\* rows that skip the absent-latency test and emit one row per address
rtt_rows_unfiltered(result) ==
    Ok(<<Sample("ping_rtt_seconds",
                <<<<"address", result.ip_address>>, <<"sample", "minimum">>>>,
                result.minimum)>>)

\* the round-trip-time rows of one result
rtt_rows(result) ==
    IF ~result.minimum.some THEN Ok(<<>>)
    ELSE IF ~Unwraps(result.average) \/ ~Unwraps(result.maxiumum) THEN Panic
    ELSE Ok(<<Sample("ping_rtt_seconds",
                     <<<<"address", result.ip_address>>,
                       <<"sample", "minimum">>>>,
                     result.minimum.val),
              Sample("ping_rtt_seconds",
                     <<<<"address", result.ip_address>>,
                       <<"sample", "average">>>>,
                     result.average.val),
              Sample("ping_rtt_seconds",
                     <<<<"address", result.ip_address>>,
                       <<"sample", "maxiumum">>>>,
                     result.maxiumum.val)>>)

RECURSIVE rtt_family(_, _, _)
rtt_family(results, i, rows) ==
    IF i > Len(results) THEN Ok(rows)
    ELSE LET r == rtt_rows(results[i])
         IN  IF r.kind # "Ok" THEN r
             ELSE rtt_family(results, i + 1, rows \o r.val)

\* one sample per result, labelled with its address, valued by one field
count_family(name, results, field) ==
    [i \in 1..Len(results) |->
        Sample(name, <<<<"address", results[i].ip_address>>>>,
               results[i][field])]

\* the handler's rendering of one sweep's results
render(results) ==
    LET rtt == rtt_family(results, 1, <<>>)
    IN  IF rtt.kind # "Ok" THEN Panic
        ELSE Ok(<<Header("ping_rtt_seconds")>> \o rtt.val \o <<Blank>>
                \o <<Header("ping_packets_sent")>>
                \o count_family("ping_packets_sent", results, "sent")
                \o <<Blank>>
                \o <<Header("ping_packets_received")>>
                \o count_family("ping_packets_received", results, "received")
                \o <<Blank>>
                \o <<Header("ping_packet_loss_percent")>>
                \o count_family("ping_packet_loss_percent", results, "lost"))

----------------------------------------------------------------------------
(* The query string of a request.                                          *)

\* the network texts str::parse::<IpNet>() accepts
NetTexts == {"10.0.0.0/30", "10.0.1.0/30"}

\* a pair of the query is the sequence of its pieces between '=' signs;
\* splitn(2, '=') gives the first piece and, if there is one, the rest
RECURSIVE insert_pairs(_, _, _)
insert_pairs(pairs, i, map) ==
    IF i > Len(pairs) THEN Ok(map)
    ELSE LET p == pairs[i]
         IN  IF Len(p) < 2 THEN Panic
             ELSE insert_pairs(pairs, i + 1,
                      [k \in DOMAIN map \cup {p[1]} |->
                          IF k = p[1] THEN SubSeq(p, 2, Len(p)) ELSE map[k]])

\* the handler up to the sweep: build query_string, then
\* query_string.get("target").unwrap().parse().unwrap()
parse_target(query) ==
    LET map == IF query.some THEN insert_pairs(query.val, 1, <<>>)
               ELSE Ok(<<>>)
    IN  IF map.kind # "Ok" THEN Panic
        ELSE IF "target" \notin DOMAIN map.val THEN Panic
        ELSE LET v == map.val["target"]
             IN  IF Len(v) = 1 /\ v[1] \in NetTexts THEN Ok(v[1]) ELSE Panic

\* the handler after the sweep: the ? on process_subnet's result, then the
\* rendering
respond(swept) == IF swept.kind # "Ok" THEN swept ELSE render(swept.val)

----------------------------------------------------------------------------
(* Inputs.                                                                 *)

\* longest report of one sweep, in lines
MaxLines == 2

\* most pairs in one query string
MaxPairs == 2

\* requests the server handles at the same time
MaxConns == 2

AddrTexts ==
    {<<"1.1.1.1">>, <<"202.12.11.1">>, <<" ", "202.12.11.1", " ", " ">>,
     <<"bogus">>, <<>>}

CountTexts ==
    {<<"0">>, <<"2">>, <<"0", "0", "7">>, <<"1", "0", "0">>,
     <<"2", "5", "5">>, <<"2", "5", "6">>, <<"3", "0", "0">>, <<"x">>}

LatencyTexts ==
    {<<>>,
     <<<<"0", ".", "7", "0">>, <<"0", ".", "9", "0">>, <<"1", ".", "1", "0">>>>,
     <<<<"1", "2">>, <<"3", ".">>, <<"4", ".", "5">>>>,
     <<<<"0", ".", "7", "0">>, <<"0", ".", "9", "0">>>>,
     <<<<"0", ".", "7", "0">>, <<"x">>, <<"1", ".", "1", "0">>>>}

Line(addr, colon, sent, received, lost, pct, rtt) ==
    [addr |-> addr, colon |-> colon, sent |-> sent, received |-> received,
     lost |-> lost, pct |-> pct, rtt |-> rtt]

\* the lines the parser is run on
ParserLines ==
    [addr : AddrTexts, colon : BOOLEAN, sent : CountTexts,
     received : CountTexts, lost : CountTexts, pct : BOOLEAN,
     rtt : LatencyTexts]

\* "1.1.1.1 : xmt/rcv/%loss = 2/2/0%, min/avg/max = 0.70/0.90/1.10"
ReachableLine ==
    Line(<<"1.1.1.1">>, TRUE, <<"2">>, <<"2">>, <<"0">>, TRUE,
         <<<<"0", ".", "7", "0">>, <<"0", ".", "9", "0">>,
           <<"1", ".", "1", "0">>>>)

\* "202.12.11.1 : xmt/rcv/%loss = 2/0/100%"
LossLine ==
    Line(<<"202.12.11.1">>, TRUE, <<"2">>, <<"0">>, <<"1", "0", "0">>, TRUE,
         <<>>)

\* the lines a sweep's report is made of: the two well-formed shapes, a
\* line without the % marker, one with a count above 255
SweepLines ==
    {ReachableLine,
     LossLine,
     Line(<<"1.1.1.1">>, TRUE, <<"2">>, <<"2">>, <<"0">>, FALSE, <<>>),
     Line(<<"1.1.1.1">>, TRUE, <<"3", "0", "0">>, <<"2">>, <<"0">>, TRUE, <<>>)}

SeqsUpTo(S, n) == UNION {[1..k -> S] : k \in 0..n}

Outputs ==
    {SpawnFailed}
    \cup {Exited(st, ls) : st \in ExitStatuses, ls \in SeqsUpTo(SweepLines, MaxLines)}

QueryPairs ==
    {<<"target", "10.0.0.0/30">>, <<"target", "10.0.1.0/30">>,
     <<"target", "notanet">>, <<"target", "10.0.0.0/30", "x">>,
     <<"target">>, <<"other", "1">>, <<"">>}

Queries ==
    {None} \cup {Some(q) : q \in SeqsUpTo(QueryPairs, MaxPairs) \ {<<>>}}

----------------------------------------------------------------------------
(* The parser run on one line, and its result rendered.                    *)

NotParsed == [via |-> "none"]

NotRendered == [kind |-> "none"]

\* the number of fping processes running for each target
NoneRunning == [t \in NetTexts |-> 0]

Started(run, t) == [run EXCEPT ![t] = @ + 1]

Exits(run, t) == [run EXCEPT ![t] = @ - 1]

RECURSIVE Sum(_, _)
Sum(f, S) ==
    IF S = {} THEN 0
    ELSE LET x == CHOOSE y \in S : TRUE IN f[x] + Sum(f, S \ {x})

\* the requests being handled: each is blocked on its own fping process
InFlight(run) == Sum(run, NetTexts)

NoEvent == [event |-> "none"]

InitParse ==
    /\ line \in ParserLines
    /\ parsed = NotParsed
    /\ rendered = NotRendered
    /\ running = NoneRunning
    /\ last = NoEvent

\* line.parse::<PingResult>()
ParseFromStr ==
    /\ parsed = NotParsed
    /\ parsed' = [via |-> "from_str", res |-> from_str(line)]
    /\ UNCHANGED <<line, rendered, running, last>>

\* one turn of process_subnet's loop on the line
ParseInSweep ==
    /\ parsed = NotParsed
    /\ parsed' = [via |-> "process_subnet", res |-> parse_report_line(line)]
    /\ UNCHANGED <<line, rendered, running, last>>

\* the rendering of the one-result set
RenderParsed ==
    /\ parsed # NotParsed
    /\ parsed.res.kind = "Ok"
    /\ rendered = NotRendered
    /\ rendered' = render(<<parsed.res.val>>)
    /\ UNCHANGED <<line, parsed, running, last>>

NextParse == ParseFromStr \/ ParseInSweep \/ RenderParsed

SpecParse == InitParse /\ [][NextParse]_vars

----------------------------------------------------------------------------
(* The server: every request runs the handler on its own connection.       *)

Init ==
    /\ line = ReachableLine
    /\ parsed = NotParsed
    /\ rendered = NotRendered
    /\ running = NoneRunning
    /\ last = NoEvent

\* a request arrives and is handled on a task of its own: the handler
\* reads the query and, when it yields a target, starts the tool and blocks
\* on its exit
Request(query) ==
    /\ InFlight(running) < MaxConns
    /\ LET t == parse_target(query)
       IN  IF t.kind = "Ok"
           THEN /\ running' = Started(running, t.val)
                /\ UNCHANGED last
           ELSE /\ last' = [event |-> "rejected", query |-> query, resp |-> t]
                /\ UNCHANGED running
    /\ UNCHANGED <<line, parsed, rendered>>

\* a tool process started for target t exits: its handler parses the
\* report, renders it and answers
SweepDone(t, out) ==
    /\ running[t] > 0
    /\ LET swept == process_subnet(out)
       IN  last' = [event |-> "swept", target |-> t, out |-> out,
                    swept |-> swept, resp |-> respond(swept)]
    /\ running' = Exits(running, t)
    /\ UNCHANGED <<line, parsed, rendered>>

Next ==
    \/ \E q \in Queries : Request(q)
    \/ \E t \in NetTexts, out \in Outputs : SweepDone(t, out)

Spec == Init /\ [][Next]_vars

----------------------------------------------------------------------------
(* Properties of the parser, checked under SpecParse.                      *)

RECURSIVE DecimalFrom(_, _, _)
DecimalFrom(t, i, acc) ==
    IF i > Len(t) THEN acc ELSE DecimalFrom(t, i + 1, acc * 10 + DigitVal(t[i]))

\* the number a \d+ text writes
DecimalValue(t) == DecimalFrom(t, 1, 0)

\* the line carries a complete min/avg/max group
HasLatencyGroup(l) == Len(l.rtt) = 3 /\ \A i \in 1..3 : IsDecimal(l.rtt[i])

\* the line matches the report pattern
Matches(l) == captures(l).matched

AddressParses(l) == parse_ip(trim(l.addr)).ok

Returned == parsed # NotParsed /\ parsed.res.kind = "Ok"

TripleAbsent(r) == ~r.minimum.some /\ ~r.average.some /\ ~r.maxiumum.some

TriplePresent(r) == r.minimum.some /\ r.average.some /\ r.maxiumum.some

\* C2: from_str returns a PingResult or a parse error for every line and
\* never panics; a line the pattern does not match gives the malformed-line
\* error.
C2_FromStrNeverPanics ==
    parsed.via = "from_str" =>
        /\ parsed.res.kind \in {"Ok", "Err"}
        /\ ~Matches(line) => parsed.res.kind = "Err"

\* C7, as claimed: every returned PingResult has lost = 100 exactly when its
\* latency triple is absent, and received = 0 only with lost = 100.
C7_LossIffNoLatency ==
    Returned =>
        LET r == parsed.res.val
        IN  /\ (r.lost = 100) <=> TripleAbsent(r)
            /\ r.received = 0 => r.lost = 100

\* C7, amended: the latency triple of a returned PingResult is absent
\* exactly when the line has no complete min/avg/max group, whatever its
\* counts say; and a line that writes 100% loss and 0 received without that
\* group parses to lost = 100, received = 0 and an absent triple.
C7_LatencyAbsentIffNoGroup ==
    Returned =>
        LET r == parsed.res.val
        IN  /\ TripleAbsent(r) <=> ~HasLatencyGroup(line)
            /\ (/\ DecimalValue(line.lost) = 100
                /\ DecimalValue(line.received) = 0
                /\ ~HasLatencyGroup(line))
               => r.lost = 100 /\ r.received = 0 /\ TripleAbsent(r)

\* the 100%-loss line of the parser's own test has been parsed by from_str
C7_Witness ==
    /\ parsed.via = "from_str"
    /\ line = LossLine
    /\ parsed.res.kind = "Ok"
    /\ parsed.res.val.lost = 100
    /\ TripleAbsent(parsed.res.val)

\* C8: minimum, average and maximum of a returned PingResult are all
\* present or all absent, so the renderer, which tests minimum only, never
\* unwraps an absent average or maximum.
C8_LatencyAllOrNone ==
    /\ Returned =>
          TriplePresent(parsed.res.val) \/ TripleAbsent(parsed.res.val)
    /\ rendered.kind # "Panic"

\* a result with a latency triple has been parsed and rendered
C8_Witness ==
    /\ Returned
    /\ HasLatencyGroup(line)
    /\ TriplePresent(parsed.res.val)
    /\ rendered.kind = "Ok"

\* a line with an incomplete latency group has been parsed and rendered
C8_WitnessPartialGroup ==
    /\ Returned
    /\ Len(line.rtt) = 2
    /\ rendered.kind = "Ok"

CountsOf(l) == {l.sent, l.received, l.lost}

\* C10, as claimed: on every line that matches the pattern, a sent,
\* received or lost above 255 gives the count error and no PingResult, and
\* a returned PingResult carries the numbers written in the line.
C10_OverflowIsCountError ==
    (parsed # NotParsed /\ Matches(line)) =>
        /\ (\E t \in CountsOf(line) : DecimalValue(t) > U8Max)
              => parsed.res = Err("ParseIntError")
        /\ parsed.res.kind = "Ok" =>
              /\ parsed.res.val.sent = DecimalValue(line.sent)
              /\ parsed.res.val.received = DecimalValue(line.received)
              /\ parsed.res.val.lost = DecimalValue(line.lost)

\* C10, amended: the same for every line that matches the pattern and
\* whose address parses; when the address does not parse, the address error
\* is returned before any count is read, and no PingResult either.
C10_OverflowIsCountErrorAfterAddress ==
    (parsed # NotParsed /\ Matches(line)) =>
        /\ (\E t \in CountsOf(line) : DecimalValue(t) > U8Max)
              => /\ parsed.res.kind = "Err"
                 /\ AddressParses(line) => parsed.res = Err("ParseIntError")
        /\ parsed.res.kind = "Ok" =>
              /\ parsed.res.val.sent = DecimalValue(line.sent)
              /\ parsed.res.val.received = DecimalValue(line.received)
              /\ parsed.res.val.lost = DecimalValue(line.lost)

\* from_str has refused a line whose lost field writes 256
C10_Witness ==
    /\ parsed.via = "from_str"
    /\ Matches(line)
    /\ AddressParses(line)
    /\ DecimalValue(line.sent) <= U8Max
    /\ DecimalValue(line.received) <= U8Max
    /\ DecimalValue(line.lost) = U8Max + 1
    /\ parsed.res = Err("ParseIntError")

----------------------------------------------------------------------------
(* Properties of the sweep runner and the handler, checked under Spec.     *)

Swept == last.event = "swept"

Answered == Swept /\ last.resp.kind = "Ok"

ParsesOk(l) == parse_report_line(l).kind = "Ok"

\* the PingResults of the lines that parse, in report order
ParsedLines(lines) ==
    LET good == SelectSeq(lines, ParsesOk)
    IN  [i \in 1..Len(good) |-> parse_report_line(good[i]).val]

\* C1: a sweep that did not exit with the operational-failure status and
\* whose report has a line that fails to parse still succeeds, with exactly
\* the PingResults of the lines that parse, and the response is rendered
\* from them.
C1_BadLineIsDropped ==
    (/\ Swept
     /\ last.out.spawned
     /\ last.out.status # "operational_failure"
     /\ \E i \in 1..Len(last.out.lines) : ~ParsesOk(last.out.lines[i]))
    => /\ last.swept = Ok(ParsedLines(last.out.lines))
       /\ last.resp.kind = "Ok"

\* C3: when the tool exits with the operational-failure status the sweep
\* fails with the command error, and nothing of that report is returned or
\* rendered.
C3_FailureStatusFailsSweep ==
    (Swept /\ last.out.spawned /\ last.out.status = "operational_failure")
    => /\ last.swept = Err("CommandError")
       /\ last.resp.kind # "Ok"

\* C4: a request whose query has no target, a target that is no network,
\* or a pair without '=' is answered with an error and the handler does not
\* panic.
C4_BadQueryIsClientError ==
    last.event = "rejected" => last.resp.kind = "Err"

IsSample(e, name) == e.t = "sample" /\ e.name = name

SampleNames == {"minimum", "average", "maximum"}

\* C5: every round-trip-time sample has an address label and a sample
\* label that is minimum, average or maximum, and the three samples of one
\* address come together in that order.
C5_RttSampleLabels ==
    Answered =>
        LET body == last.resp.val
            rtt  == SelectSeq(body, LAMBDA e : IsSample(e, "ping_rtt_seconds"))
        IN  /\ \A j \in 1..Len(rtt) :
                  /\ Len(rtt[j].labels) = 2
                  /\ rtt[j].labels[1][1] = "address"
                  /\ rtt[j].labels[2][1] = "sample"
                  /\ rtt[j].labels[2][2] \in SampleNames
            /\ Len(rtt) % 3 = 0
            /\ \A g \in 0..((Len(rtt) \div 3) - 1) :
                  /\ rtt[3 * g + 1].labels[2][2] = "minimum"
                  /\ rtt[3 * g + 2].labels[2][2] = "average"
                  /\ rtt[3 * g + 3].labels[2][2] = "maximum"
                  /\ rtt[3 * g + 1].labels[1] = rtt[3 * g + 2].labels[1]
                  /\ rtt[3 * g + 2].labels[1] = rtt[3 * g + 3].labels[1]

FamilyNames ==
    <<"ping_rtt_seconds", "ping_packets_sent", "ping_packets_received",
      "ping_packet_loss_percent">>

\* the samples of a family that carry the address label a
SamplesOf(body, name, a) ==
    {j \in 1..Len(body) :
        IsSample(body[j], name) /\ body[j].labels[1] = <<"address", a>>}

\* C6: the rendered text has the four families in the order round-trip
\* time, sent, received, loss, each under its header; the round-trip-time
\* family has 3 samples for each result with a latency triple and none for
\* a result without, every other family one sample for each result; an
\* empty result set renders the four headers and no sample.
C6_FamiliesAndCounts ==
    Answered =>
        LET body    == last.resp.val
            results == last.swept.val
            heads   == SelectSeq(body, LAMBDA e : e.t = "header")
            of(a)   == {i \in 1..Len(results) : results[i].ip_address = a}
            timed(a) == {i \in of(a) : TriplePresent(results[i])}
        IN  /\ [i \in 1..Len(heads) |-> heads[i].name] = FamilyNames
            /\ \A j \in 1..Len(body) :
                  body[j].t = "sample" =>
                      /\ \E h \in 1..(j - 1) :
                            /\ body[h].t = "header"
                            /\ body[h].name = body[j].name
                            /\ \A k \in (h + 1)..j : body[k].t # "header"
                      /\ body[j].labels[1][1] = "address"
                      /\ body[j].labels[1][2] \in IpTexts
            /\ \A a \in IpTexts :
                  /\ Cardinality(SamplesOf(body, FamilyNames[1], a))
                        = 3 * Cardinality(timed(a))
                  /\ \A f \in 2..4 :
                        Cardinality(SamplesOf(body, FamilyNames[f], a))
                            = Cardinality(of(a))
            /\ results = <<>> =>
                  \A j \in 1..Len(body) : body[j].t # "sample"

\* a report with one reachable and one 100%-loss address has been rendered
C6_Witness ==
    /\ Answered
    /\ last.out.lines = <<ReachableLine, LossLine>>
    /\ Len(last.resp.val) = 16

\* an empty report has been rendered
C6_WitnessEmpty ==
    /\ Answered
    /\ last.out.lines = <<>>
    /\ Len(last.resp.val) = 7

\* C9: no two sweeps of the same target run at the same time.
C9_OneSweepPerTarget == \A t \in NetTexts : running[t] <= 1

====
